---- MODULE Spec2Model ----
(***************************************************************************)
(* A model of slint_duckdb_viewer: the paginated fetch (loader.rs), the    *)
(* value formatters (utils.rs) and the callbacks that connect the fetch to *)
(* the user interface (main.rs).                                           *)
(*                                                                         *)
(* Texts (file paths, SQL statements) are sequences of tokens: a token is  *)
(* one character, or a fixed piece of text that the code writes as a       *)
(* literal of a format string.  The engine reads a statement back from its *)
(* tokens, so what a statement means depends on the text the code built.   *)
(***************************************************************************)
EXTENDS Integers, Sequences, FiniteSets, TLC

\* ------------------------------------------------------------------------
\* Bounds of the model
\* ------------------------------------------------------------------------

\* The number of rows of the largest file.
MaxRows == 5

\* ------------------------------------------------------------------------
\* Program constants
\* ------------------------------------------------------------------------

\* The largest and the smallest i32 (PageNumber, PageSize, SortIndex, the
\* day offset of a Date32).
MaxI32 == 2147483647

MinI32 == (-2147483647) - 1

\* The day offsets (from 1970-01-01) of chrono's NaiveDate::MAX
\* (+262142-12-31) and NaiveDate::MIN (-262143-01-01): `epoch + Duration`
\* panics beyond them.
MaxNaiveDateDays == 95026236

MinNaiveDateDays == -96465292

\* The length after which the base64 text of a blob is cut.
BlobCut == 25

\* ------------------------------------------------------------------------
\* Characters and integers as text
\* ------------------------------------------------------------------------

Upper == <<"A","B","C","D","E","F","G","H","I","J","K","L","M",
           "N","O","P","Q","R","S","T","U","V","W","X","Y","Z">>

Lower == <<"a","b","c","d","e","f","g","h","i","j","k","l","m",
           "n","o","p","q","r","s","t","u","v","w","x","y","z">>

Digits == <<"0","1","2","3","4","5","6","7","8","9">>

ToLowerChar(ch) ==
  IF \E i \in 1..26 : Upper[i] = ch
  THEN Lower[CHOOSE i \in 1..26 : Upper[i] = ch]
  ELSE ch

to_lowercase(s) == [i \in 1..Len(s) |-> ToLowerChar(s[i])]

IsDigit(t) == \E i \in 1..10 : Digits[i] = t

DigitVal(t) == (CHOOSE i \in 1..10 : Digits[i] = t) - 1

RECURSIVE RenderNat(_)
RenderNat(n) ==
  IF n < 10 THEN <<Digits[n + 1]>>
  ELSE RenderNat(n \div 10) \o <<Digits[(n % 10) + 1]>>

\* The digits of a negative number, taken from its low end without negating
\* it (the smallest i32 has no positive counterpart).
RECURSIVE RenderNeg(_)
RenderNeg(n) ==
  LET d == (10 - (n % 10)) % 10
      rest == (n + d) \div 10
  IN IF rest = 0 THEN <<Digits[d + 1]>>
     ELSE RenderNeg(rest) \o <<Digits[d + 1]>>

\* `{}` of an i32 in format!: a sign and the decimal digits.
i32_to_string(n) == IF n < 0 THEN <<"-">> \o RenderNeg(n) ELSE RenderNat(n)

\* ------------------------------------------------------------------------
\* utils.rs: get_file_extension
\* ------------------------------------------------------------------------

LastDot(s) ==
  IF \E i \in 1..Len(s) : s[i] = "."
  THEN CHOOSE i \in 1..Len(s) :
         s[i] = "." /\ \A j \in (i + 1)..Len(s) : s[j] # "."
  ELSE 0

\* filename.rsplit('.').next(): the text after the last '.', the whole text
\* when there is none.
rsplit_next(s) == SubSeq(s, LastDot(s) + 1, Len(s))

ends_with_dot(s) == Len(s) > 0 /\ s[Len(s)] = "."

\* Variant that keeps the letter case of the extension.
get_file_extension_case_sensitive(filename) ==
  LET ext == rsplit_next(filename)
  IN IF ends_with_dot(filename) \/ ext = filename
     THEN <<>>
     ELSE ext

get_file_extension(filename) ==
  LET ext == rsplit_next(filename)
  IN IF ends_with_dot(filename) \/ ext = filename
     THEN <<>>
     ELSE to_lowercase(ext)

\* ------------------------------------------------------------------------
\* loader.rs: the three statements of fetch_data
\* ------------------------------------------------------------------------

ExtParquet == <<"p","a","r","q","u","e","t">>

ExtCsv == <<"c","s","v">>

\* The match on the extension; "" stands for the arm that returns the
\* unsupported-file-type error.
scan_function(extension) ==
  IF extension = ExtParquet THEN "parquet_scan"
  ELSE IF extension = ExtCsv THEN "read_csv_auto"
  ELSE ""

\* format!("...{}('{}')", scan_function, filename.0): the path goes between
\* the two quotes as it is.
quoted_scan(scan, filename) == <<scan, "(", "'">> \o filename \o <<"'", ")">>

query_base(scan, filename) == <<"SELECT * FROM ">> \o quoted_scan(scan, filename)

query2_text(scan, filename) ==
  <<"SELECT * FROM ">> \o quoted_scan(scan, filename) \o <<" LIMIT ", "1">>

query3_text(scan, filename) ==
  <<"SELECT count(1) count FROM ">> \o quoted_scan(scan, filename)

sort_direction(sort_order) ==
  IF sort_order = 1 THEN "ASC"
  ELSE IF sort_order = 2 THEN "DESC"
  ELSE ""

\* Variant that also sorts on index 0.
order_by_clause_from_zero(sort_index, sort_order) ==
  IF sort_index >= 0
  THEN <<" ORDER BY ">> \o i32_to_string(sort_index)
         \o <<" ", sort_direction(sort_order)>>
  ELSE <<>>

order_by_clause(sort_index, sort_order) ==
  IF sort_index > 0
  THEN <<" ORDER BY ">> \o i32_to_string(sort_index)
         \o <<" ", sort_direction(sort_order)>>
  ELSE <<>>

limit_clause(page_size, offset) ==
  <<" LIMIT ">> \o i32_to_string(page_size)
    \o <<" OFFSET ">> \o i32_to_string(offset)

query_text(scan, filename, sort_index, sort_order, page_size, offset) ==
  query_base(scan, filename)
    \o order_by_clause(sort_index, sort_order)
    \o limit_clause(page_size, offset)

\* ------------------------------------------------------------------------
\* i32 arithmetic of the offset, loader.rs line 100
\* ------------------------------------------------------------------------

\* a + b on i32, wrapping.
WrapAdd(x, y) ==
  IF x >= 0 /\ y >= 0 /\ x > MaxI32 - y THEN (x + MinI32) + (y + MinI32)
  ELSE IF x < 0 /\ y < 0 /\ x < MinI32 - y THEN (x - MinI32) + (y - MinI32)
  ELSE x + y

\* x * y for 0 <= x, y < 2^16, as the two 16-bit halves of the product.
Mul16(x, y) ==
  LET t == x * (y \div 256)
      low == ((t % 256) * 256) + (x * (y % 256))
  IN [hi |-> (t \div 256) + (low \div 65536), lo |-> low % 65536]

\* The 16-bit halves of the two's complement of an i32.
Hi16(x) == (x \div 65536) % 65536

Lo16(x) == x % 65536

\* a * b on i32, wrapping: the low 32 bits of the product, from the 16-bit
\* halves of the factors.
WrapMul(a, b) ==
  LET ll == Mul16(Lo16(a), Lo16(b))
      hi == (ll.hi + Mul16(Hi16(a), Lo16(b)).lo + Mul16(Lo16(a), Hi16(b)).lo) % 65536
  IN IF hi >= 32768 THEN ((hi - 65536) * 65536) + ll.lo
     ELSE (hi * 65536) + ll.lo

\* Whether a * b leaves i32, for a >= 0.
MulOverflows(a, b) ==
  IF a = 0 \/ b = 0 \/ b = -1 THEN FALSE
  ELSE IF b > 0 THEN a > MaxI32 \div b
  ELSE IF b = MinI32 THEN a >= 2
  ELSE a > (MaxI32 \div (-b)) + (IF (MaxI32 % (-b)) + 1 = -b THEN 1 ELSE 0)

\* (page_number.0 - 1) * page_size.0 of a request with page_number >= 1.
\* "overflow" is the arithmetic overflow that a build with overflow checks
\* turns into a panic and a build without them into a wrapped value.
offset_overflows(page_number, page_size) ==
  MulOverflows(page_number - 1, page_size)

offset_wrapped(page_number, page_size) ==
  IF offset_overflows(page_number, page_size)
  THEN WrapMul(page_number - 1, page_size)
  ELSE (page_number - 1) * page_size

\* ------------------------------------------------------------------------
\* The engine: reading a statement
\* ------------------------------------------------------------------------

ScanFunctions == {"parquet_scan", "read_csv_auto"}

\* The text of a statement: a token that is the empty string adds nothing.
NonEmpty(t) == t # ""

Text(q) == SelectSeq(q, NonEmpty)

\* The number of quotes in a row that end at index i, counted from index
\* `from` on.
QuoteRun(q, from, i) ==
  Cardinality({j \in from..i : \A k \in j..i : q[k] = "'"})

\* The index of the quote that closes the literal whose content starts at
\* `from` (two quotes in a row stand for one quote of the content): the end
\* of the first odd run of quotes; 0 when the literal is not closed.
LitClose(q, from) ==
  LET closers ==
        {i \in from..Len(q) :
           /\ q[i] = "'"
           /\ (i = Len(q) \/ q[i + 1] # "'")
           /\ QuoteRun(q, from, i) % 2 = 1}
  IN IF closers = {} THEN 0
     ELSE CHOOSE i \in closers : \A j \in closers : i <= j

\* The content a literal denotes: of every two quotes in a row, one.
Unescape(s) ==
  LET kept == {i \in 1..Len(s) : s[i] # "'" \/ QuoteRun(s, 1, i) % 2 = 0}
      Nth(k) == CHOOSE i \in kept : Cardinality({j \in kept : j <= i}) = k
  IN [k \in 1..Cardinality(kept) |-> s[Nth(k)]]

\* The index after the digits that start at i.
DigitsEnd(q, i) ==
  IF \E e \in i..Len(q) : ~IsDigit(q[e])
  THEN CHOOSE e \in i..Len(q) :
         ~IsDigit(q[e]) /\ \A j \in i..(e - 1) : IsDigit(q[j])
  ELSE Len(q) + 1

\* The index after the number that starts at i; 0 when there is no number.
NumEnd(q, i) ==
  IF i > Len(q) THEN 0
  ELSE LET s == IF q[i] = "-" THEN i + 1 ELSE i
           e == DigitsEnd(q, s)
       IN IF e > s THEN e ELSE 0

RECURSIVE ParseDigits(_, _, _)
ParseDigits(s, acc, sign) ==
  IF s = <<>> THEN acc
  ELSE ParseDigits(Tail(s), (acc * 10) + (sign * DigitVal(Head(s))), sign)

ParseNum(s) ==
  IF Head(s) = "-" THEN ParseDigits(Tail(s), 0, -1) ELSE ParseDigits(s, 0, 1)

BadStmt ==
  [ok |-> FALSE, count |-> FALSE, fn |-> "", path |-> <<>>, order |-> 0,
   dir |-> "", has_limit |-> FALSE, limit |-> 0, offset |-> 0]

\* The clauses after the scan call of a SELECT *, read from left to right:
\* [ORDER BY n [ASC|DESC]] [LIMIT n [OFFSET n]], and nothing after them.
\* q is the text, i the index of the next token, r what has been read.
Is(q, i, tokens) == i <= Len(q) /\ q[i] \in tokens

ClausesEnd(q, i, r) == IF i = Len(q) + 1 THEN r ELSE BadStmt

OffsetNumber(q, i, r) ==
  LET e == NumEnd(q, i)
  IN IF e = 0 THEN BadStmt
     ELSE ClausesEnd(q, e, [r EXCEPT !.offset = ParseNum(SubSeq(q, i, e - 1))])

OffsetClause(q, i, r) ==
  IF Is(q, i, {" OFFSET "}) THEN OffsetNumber(q, i + 1, r)
  ELSE ClausesEnd(q, i, r)

LimitNumber(q, i, r) ==
  LET e == NumEnd(q, i)
  IN IF e = 0 THEN BadStmt
     ELSE OffsetClause(q, e, [r EXCEPT !.has_limit = TRUE,
                                       !.limit = ParseNum(SubSeq(q, i, e - 1))])

LimitClause(q, i, r) ==
  IF Is(q, i, {" LIMIT "}) THEN LimitNumber(q, i + 1, r)
  ELSE ClausesEnd(q, i, r)

OrderDirection(q, i, r) ==
  LET j == IF Is(q, i, {" "}) THEN i + 1 ELSE i
  IN IF Is(q, j, {"ASC", "DESC"})
     THEN LimitClause(q, j + 1, [r EXCEPT !.dir = q[j]])
     ELSE LimitClause(q, j, r)

OrderNumber(q, i, r) ==
  LET e == NumEnd(q, i)
  IN IF e = 0 THEN BadStmt
     ELSE OrderDirection(q, e, [r EXCEPT !.order = ParseNum(SubSeq(q, i, e - 1))])

ParseClauses(q, i, r) ==
  IF Is(q, i, {" ORDER BY "}) THEN OrderNumber(q, i + 1, r)
  ELSE LimitClause(q, i, r)

\* The statement after its head: the literal from index 5 on, the closing
\* parenthesis, and the clauses.
ParseScan(q, close) ==
  IF close = 0 \/ ~Is(q, close + 1, {")"}) THEN BadStmt
  ELSE IF q[1] = "SELECT count(1) count FROM "
  THEN ClausesEnd(q, close + 2,
                  [BadStmt EXCEPT !.ok = TRUE, !.count = TRUE, !.fn = q[2],
                                  !.path = Unescape(SubSeq(q, 5, close - 1))])
  ELSE ParseClauses(q, close + 2,
                    [BadStmt EXCEPT !.ok = TRUE, !.fn = q[2],
                                    !.path = Unescape(SubSeq(q, 5, close - 1))])

StmtHead(q) ==
  /\ Is(q, 1, {"SELECT * FROM ", "SELECT count(1) count FROM "})
  /\ Is(q, 2, ScanFunctions)
  /\ Is(q, 3, {"("})
  /\ Is(q, 4, {"'"})

\* What the engine reads in a statement: the scan function, the path that the
\* quoted literal denotes, and the clauses.
ParseText(q) == IF StmtHead(q) THEN ParseScan(q, LitClose(q, 5)) ELSE BadStmt

ParseStmt(q0) == ParseText(Text(q0))

\* ------------------------------------------------------------------------
\* 64-bit integers (i64) as decimal numerals
\* ------------------------------------------------------------------------

\* An i64 is held as its sign and the decimal digits of its magnitude, the
\* most significant first and without leading zeros.
Pow10 == <<1, 10, 100, 1000, 10000, 100000, 1000000, 10000000, 100000000,
           1000000000>>

\* The digits of a natural number that fits an i32.
DecimalDigits(n) ==
  LET k == Cardinality({j \in 2..10 : n >= Pow10[j]}) + 1
  IN [i \in 1..k |-> (n \div Pow10[(k - i) + 1]) % 10]

Strip(d) ==
  LET z == Cardinality({i \in 1..(Len(d) - 1) : \A j \in 1..i : d[j] = 0})
  IN SubSeq(d, z + 1, Len(d))

I64(neg, digits) ==
  [neg |-> neg /\ Strip(digits) # <<0>>, digits |-> Strip(digits)]

\* The value of the first i digits of d (at most nine of them).
RECURSIVE ValueAt(_, _)
ValueAt(d, i) == IF i = 0 THEN 0 ELSE (ValueAt(d, i - 1) * 10) + d[i]

DigitsValue(d) == ValueAt(d, Len(d))

\* a < b, for magnitudes without leading zeros.
DigitsLess(a, b) ==
  \/ Len(a) < Len(b)
  \/ /\ Len(a) = Len(b)
     /\ \E i \in 1..Len(a) :
          a[i] < b[i] /\ \A j \in 1..(i - 1) : a[j] = b[j]

\* i32::try_from(x) is an error: the conversion row.get makes to fill an
\* i32 from a BIGINT.
i32_out_of_range(x) ==
  IF x.neg THEN DigitsLess(<<2, 1, 4, 7, 4, 8, 3, 6, 4, 8>>, x.digits)
  ELSE DigitsLess(DecimalDigits(MaxI32), x.digits)

\* The i32 of a numeral in range (the magnitude 2147483648 is MinI32).
i32_of(x) ==
  IF x.neg
  THEN (IF Len(x.digits) = 10 THEN -(DigitsValue(Tail(x.digits)))
                                     - (Head(x.digits) * 1000000000)
        ELSE -(DigitsValue(x.digits)))
  ELSE (IF Len(x.digits) = 10 THEN DigitsValue(Tail(x.digits))
                                     + (Head(x.digits) * 1000000000)
        ELSE DigitsValue(x.digits))

\* Long division of a magnitude by a small m: the remainder of the first i
\* digits, and the digits of the quotient.
RECURSIVE RemAt(_, _, _)
RemAt(d, i, m) ==
  IF i = 0 THEN 0 ELSE ((RemAt(d, i - 1, m) * 10) + d[i]) % m

QuotDigits(d, m) ==
  [i \in 1..Len(d) |-> ((RemAt(d, i - 1, m) * 10) + d[i]) \div m]

\* x / 10^k and x % 10^k of Rust: the quotient is cut towards zero and the
\* remainder has the sign of x.
div_pow10(x, k) ==
  I64(x.neg, IF Len(x.digits) <= k THEN <<0>>
             ELSE SubSeq(x.digits, 1, Len(x.digits) - k))

rem_pow10(x, k) ==
  I64(x.neg, IF Len(x.digits) <= k THEN x.digits
             ELSE SubSeq(x.digits, (Len(x.digits) - k) + 1, Len(x.digits)))

\* x * 10^k, for a product within i64.
mul_pow10(x, k) == I64(x.neg, x.digits \o [i \in 1..k |-> 0])

\* A u32 as its two 16-bit halves.
U32(hi, lo) == [hi |-> hi, lo |-> lo]

u32_of_nat(n) == U32(n \div 65536, n % 65536)

\* `x as u32`: the low 32 bits of the two's complement of x.
as_u32(x) ==
  LET lo == RemAt(x.digits, Len(x.digits), 65536)
      high == QuotDigits(x.digits, 65536)
      hi == RemAt(high, Len(x.digits), 65536)
  IN IF ~x.neg THEN U32(hi, lo)
     ELSE IF lo = 0 THEN U32((65536 - hi) % 65536, 0)
     ELSE U32(65535 - hi, 65536 - lo)

\* a >= hi * 65536 + lo.
u32_at_least(a, hi, lo) == a.hi > hi \/ (a.hi = hi /\ a.lo >= lo)

\* The value of a u32 below 2^31.
u32_value(a) == (a.hi * 65536) + a.lo

\* ------------------------------------------------------------------------
\* Engine values and their display strings (loader.rs 162-207, utils.rs)
\* ------------------------------------------------------------------------

\* A value of the engine: a tag (the variant of duckdb::types::Value, or
\* "Error" when row.get fails) and its payload: the integer, the day offset
\* of a Date32, the number of (zero) bytes of a Blob.
Val(tag, v) == [tag |-> tag, v |-> v]

RECURSIVE Join(_)
Join(s) == IF s = <<>> THEN "" ELSE Head(s) \o Join(Tail(s))

Rep(ch, k) == [i \in 1..k |-> ch]

\* general_purpose::STANDARD.encode of n zero bytes.
base64_zero_bytes(n) ==
  Rep("A", 4 * (n \div 3))
    \o (IF n % 3 = 1 THEN <<"A", "A", "=", "=">>
        ELSE IF n % 3 = 2 THEN <<"A", "A", "A", "=">>
        ELSE <<>>)

blob_to_string(n) ==
  LET base64_str == base64_zero_bytes(n)
  IN IF Len(base64_str) > BlobCut
     THEN Join(SubSeq(base64_str, 1, BlobCut)) \o "..."
     ELSE Join(base64_str)

Pad2(n) == IF n < 10 THEN "0" \o ToString(n) ELSE ToString(n)

\* chrono's %Y: four digits for the years 0..9999, otherwise a sign and at
\* least four digits.
Pad4(n) ==
  IF n < 10 THEN "000" \o ToString(n)
  ELSE IF n < 100 THEN "00" \o ToString(n)
  ELSE IF n < 1000 THEN "0" \o ToString(n)
  ELSE ToString(n)

FormatYear(y) ==
  IF y >= 0 /\ y <= 9999 THEN Pad4(y)
  ELSE IF y < 0 THEN "-" \o Pad4(-y)
  ELSE "+" \o Pad4(y)

\* The civil date of a day offset from 1970-01-01 (proleptic Gregorian).
CivilFromDays(days) ==
  LET z == days + 719468
      era == z \div 146097
      doe == z - (era * 146097)
      yoe == (doe - (doe \div 1460) + (doe \div 36524) - (doe \div 146096)) \div 365
      doy == doe - ((365 * yoe) + (yoe \div 4) - (yoe \div 100))
      mp == ((5 * doy) + 2) \div 153
      d == doy - (((153 * mp) + 2) \div 5) + 1
      m == IF mp < 10 THEN mp + 3 ELSE mp - 9
      y == yoe + (era * 400) + (IF m <= 2 THEN 1 ELSE 0)
  IN [y |-> y, m |-> m, d |-> d]

\* `epoch + Duration::days(date32)` panics when the sum is no NaiveDate.
date32_panics(date32) ==
  date32 > MaxNaiveDateDays \/ date32 < MinNaiveDateDays

date32_to_ymd(date32) ==
  LET c == CivilFromDays(date32)
  IN FormatYear(c.y) \o "-" \o Pad2(c.m) \o "-" \o Pad2(c.d)

\* chrono's Option: None, or the day offset from 1970-01-01, the second of
\* the day and the nanosecond.
None == [some |-> FALSE, days |-> 0, secs |-> 0, nano |-> 0]

Some(days, secs, nano) ==
  [some |-> TRUE, days |-> days, secs |-> secs, nano |-> nano]

\* NaiveTime::from_num_seconds_from_midnight_opt(secs: u32, nano: u32).
from_num_seconds_from_midnight_opt(secs, nano) ==
  IF \/ u32_at_least(secs, 1, 20864)
     \/ u32_at_least(nano, 30517, 37888)
     \/ u32_at_least(nano, 15258, 51712) /\ u32_value(secs) % 60 # 59
  THEN None
  ELSE Some(0, u32_value(secs), u32_value(nano))

\* DateTime::from_timestamp(secs: i64, nsecs: u32): div_euclid and
\* rem_euclid by 86400, then a NaiveDate of the day and a NaiveTime.
from_timestamp(secs, nsecs) ==
  LET q == Strip(QuotDigits(secs.digits, 86400))
      r == RemAt(secs.digits, Len(secs.digits), 86400)
      days == IF ~secs.neg THEN DigitsValue(q)
              ELSE IF r = 0 THEN -DigitsValue(q)
              ELSE -DigitsValue(q) - 1
      rem == IF secs.neg /\ r # 0 THEN 86400 - r ELSE r
      time == from_num_seconds_from_midnight_opt(u32_of_nat(rem), nsecs)
  IN IF Len(q) > 9 THEN None
     ELSE IF days > MaxNaiveDateDays \/ days < MinNaiveDateDays THEN None
     ELSE IF ~time.some THEN None
     ELSE Some(days, time.secs, time.nano)

\* %H:%M:%S, and "." with the first k digits of the nanosecond.
FormatHMS(secs) ==
  Pad2(secs \div 3600) \o ":" \o Pad2((secs \div 60) % 60) \o ":"
    \o Pad2(secs % 60)

FormatFraction(nano, k) ==
  IF k = 0 THEN ""
  ELSE "." \o Join([i \in 1..k |-> ToString((nano \div Pow10[10 - i]) % 10)])

\* The digits a unit has below the second.
UnitDigits(unit) ==
  CASE unit = "Second" -> 0
    [] unit = "Millisecond" -> 3
    [] unit = "Microsecond" -> 6
    [] unit = "Nanosecond" -> 9

\* The seconds and nanoseconds the arms of both formatters compute.
unit_seconds(unit, i64timestamp) ==
  div_pow10(i64timestamp, UnitDigits(unit))

unit_nanoseconds(unit, i64timestamp) ==
  IF unit = "Second" THEN u32_of_nat(0)
  ELSE as_u32(mul_pow10(rem_pow10(i64timestamp, UnitDigits(unit)),
                        9 - UnitDigits(unit)))

timeunit_to_ymd_hms(unit, i64timestamp) ==
  LET datetime == from_timestamp(unit_seconds(unit, i64timestamp),
                                 unit_nanoseconds(unit, i64timestamp))
  IN IF datetime.some
     THEN date32_to_ymd(datetime.days) \o "T" \o FormatHMS(datetime.secs)
            \o FormatFraction(datetime.nano, UnitDigits(unit)) \o "+00:00"
     ELSE "Invalid Time"

timeunit_to_hms(unit, i64timestamp) ==
  LET time == from_num_seconds_from_midnight_opt(
                as_u32(unit_seconds(unit, i64timestamp)),
                unit_nanoseconds(unit, i64timestamp))
  IN IF time.some
     THEN FormatHMS(time.secs) \o FormatFraction(time.nano, UnitDigits(unit))
     ELSE "Invalid Time"

\* The arm of the match in fetch_data's row loop.
format_panics(value) == value.tag = "Date32" /\ date32_panics(value.v)

format_value(value) ==
  CASE value.tag = "Null" -> "NULL"
    [] value.tag = "Boolean" -> IF value.v # 0 THEN "true" ELSE "false"
    [] value.tag = "Int" -> ToString(value.v)
    [] value.tag = "Text" -> "text" \o ToString(value.v)
    [] value.tag = "Blob" -> blob_to_string(value.v)
    [] value.tag = "Date32" -> date32_to_ymd(value.v)
    [] value.tag = "Timestamp" -> timeunit_to_ymd_hms(value.v.unit, value.v.x)
    [] value.tag = "Time64" -> timeunit_to_hms(value.v.unit, value.v.x)
    [] value.tag = "Interval" -> "Interval"
    [] value.tag = "Error" -> "Error: " \o "e" \o ToString(value.v)

\* ------------------------------------------------------------------------
\* The engine: files and the execution of a statement
\* ------------------------------------------------------------------------

\* A file of n rows and two columns: the row number, and a second column
\* that runs the other way.
PlainRows(n) == [r \in 1..n |-> <<Val("Int", r), Val("Int", (n + 1) - r)>>]

\* A file of `count` rows (an i64 numeral) of which `rows` are the first.
MkLongFile(path, rows, count) ==
  [path |-> path, ncols |-> IF rows = <<>> THEN 2 ELSE Len(rows[1]),
   rows |-> rows, count |-> count]

MkFile(path, rows) == MkLongFile(path, rows, I64(FALSE, DecimalDigits(Len(rows))))

HasFile(files, path) == \E f \in files : f.path = path

FileAt(files, path) == CHOOSE f \in files : f.path = path

\* Preparing a statement binds it: it fails when the text is no statement,
\* when the file the literal names is not there, when ORDER BY names no
\* column, or when LIMIT or OFFSET is negative.
prepare_fails(q, files) ==
  LET p == ParseStmt(q)
  IN \/ ~p.ok
     \/ ~HasFile(files, p.path)
     \/ p.order > FileAt(files, p.path).ncols
     \/ p.has_limit /\ (p.limit < 0 \/ p.offset < 0)

\* ORDER BY k: by the value of column k; rows with equal values keep their
\* order in the file.
SortRows(rows, k, desc) ==
  LET n == Len(rows)
      Before(i, j) ==
        \/ (IF desc THEN rows[i][k].v > rows[j][k].v
                    ELSE rows[i][k].v < rows[j][k].v)
        \/ rows[i][k].v = rows[j][k].v /\ i < j
      Rank(i) == Cardinality({j \in 1..n : Before(j, i)}) + 1
  IN [r \in 1..n |-> rows[CHOOSE i \in 1..n : Rank(i) = r]]

\* The rows a prepared SELECT * returns.
result_rows(q, files) ==
  LET p == ParseStmt(q)
      f == FileAt(files, p.path)
      sorted == IF p.order > 0 THEN SortRows(f.rows, p.order, p.dir = "DESC")
                ELSE f.rows
      n == Len(sorted)
  IN IF ~p.has_limit THEN sorted
     ELSE IF p.offset >= n THEN <<>>
     ELSE SubSeq(sorted, p.offset + 1,
                 IF p.limit >= n - p.offset THEN n ELSE p.offset + p.limit)

\* The value of count(1).
count_value(q, files) == FileAt(files, ParseStmt(q).path).count

\* ------------------------------------------------------------------------
\* State
\* ------------------------------------------------------------------------

VARIABLES
  call,    \* one call of fetch_data: its arguments, locals and position
  files,   \* the files the engine can read: records [path, ncols, rows]
  build,   \* "debug": i32 overflow panics; "release": it wraps
  phase,   \* main: "startup" before ui.run(), then "running"; "crashed"
  ui,      \* the properties of GlobalState
  tasks,   \* the calls of update_table_async, in the order they were issued
  queue,   \* the closures posted to the event loop, oldest first
  applied, \* the requests whose table update the event loop has run, in order
  console  \* what main printed on the standard output

vars == <<call, files, build, phase, ui, tasks, queue, applied, console>>

app_vars == <<phase, ui, tasks, queue, applied, console>>

Builds == {"debug", "release"}

\* What can go wrong inside the engine during one call, besides what the
\* statement and the file decide: the step named fails ("no_count_row": the
\* count statement returns no row).
Faults ==
  {"none", "open", "prepare_A", "prepare_B", "execute_A", "execute_B",
   "column_name", "next_row", "prepare_C", "execute_C", "next_C", "get_C",
   "no_count_row"}

\* ------------------------------------------------------------------------
\* loader.rs: fetch_data, one step at a time
\* ------------------------------------------------------------------------

\* The call as it is entered.  log: what the call has done to the engine so
\* far, in order.  start: the length of the log when Instant::now() is
\* taken; duration: the part of the log between Instant::now() and
\* start.elapsed().
NewCall(filename, page_number, page_size, sort_index, sort_order, fault) ==
  [pc |-> "check_page",
   filename |-> filename, page_number |-> page_number,
   page_size |-> page_size, sort_index |-> sort_index,
   sort_order |-> sort_order, fault |-> fault,
   conn |-> 0, session |-> 0, scan_function |-> "",
   query |-> <<>>, query2 |-> <<>>, query3 |-> <<>>, offset |-> 0,
   log |-> <<>>, start |-> 0, duration |-> <<>>,
   column_count |-> 0, column_names |-> <<>>, row_list |-> <<>>,
   row_count |-> 0, outcome |-> "running", error |-> ""]

\* Variant that leaves the session open when the function is left.
Leave_session_open(c, outcome, error) ==
  [c EXCEPT !.pc = "returned", !.outcome = outcome, !.error = error]

\* Leaving the function drops `conn`: the session is closed on every path.
Leave(c, outcome, error) ==
  [c EXCEPT !.pc = "returned", !.outcome = outcome, !.error = error,
            !.conn = 0,
            !.log = IF c.conn # 0 THEN Append(@, "close") ELSE @]

Fail(c, error) == Leave(c, "err", error)

Panic(c, message) == Leave(c, "panic", message)

Did(c, event, pc) == [c EXCEPT !.log = Append(@, event), !.pc = pc]

\* Variant that lets page 0 through.
step_check_page_negative_only(c) ==
  IF c.page_number < 0
  THEN Fail(c, "Page number must be greater than 0")
  ELSE [c EXCEPT !.pc = "open"]

\* Lines 57-59.
step_check_page(c) ==
  IF c.page_number < 1
  THEN Fail(c, "Page number must be greater than 0")
  ELSE [c EXCEPT !.pc = "open"]

\* Lines 62-63.
step_open(c, sid) ==
  IF c.fault = "open"
  THEN Fail(c, "Failed to set up duckdb connection")
  ELSE [Did(c, "open", "extension") EXCEPT !.conn = sid, !.session = sid]

\* Lines 67-74.
step_extension(c) ==
  LET scan == scan_function(get_file_extension(c.filename))
  IN IF scan = ""
     THEN Fail(c, "Unsupported or unknown file type")
     ELSE [c EXCEPT !.scan_function = scan, !.pc = "build"]

\* Lines 76-101.
step_build(c, bld) ==
  IF offset_overflows(c.page_number, c.page_size) /\ bld = "debug"
  THEN Panic(c, "attempt to multiply with overflow")
  ELSE LET offset == offset_wrapped(c.page_number, c.page_size)
       IN [c EXCEPT
             !.offset = offset,
             !.query = query_text(c.scan_function, c.filename, c.sort_index,
                                  c.sort_order, c.page_size, offset),
             !.query2 = query2_text(c.scan_function, c.filename),
             !.query3 = query3_text(c.scan_function, c.filename),
             !.pc = "timer_start"]

\* Variant that takes the start time at function entry.
step_timer_start_at_entry(c) == [c EXCEPT !.start = 0, !.pc = "prepare_A"]

\* Line 103.
step_timer_start(c) == [c EXCEPT !.start = Len(c.log), !.pc = "prepare_A"]

\* Lines 106-108.
step_prepare_A(c, fs) ==
  IF c.fault = "prepare_A" \/ prepare_fails(c.query, fs)
  THEN Fail(c, "Failed to create context with")
  ELSE Did(c, "prepare_A", "prepare_B")

\* Lines 111-113.
step_prepare_B(c, fs) ==
  IF c.fault = "prepare_B" \/ prepare_fails(c.query2, fs)
  THEN Fail(c, "Failed to create metadata context with")
  ELSE Did(c, "prepare_B", "execute_A")

\* Variant that drains the rows of A right after executing it.
step_execute_A_then_drain(c) ==
  IF c.fault = "execute_A"
  THEN Fail(c, "Failed to execute query")
  ELSE Did(c, "execute_A", "drain_A")

\* Lines 115-117.
step_execute_A(c) ==
  IF c.fault = "execute_A"
  THEN Fail(c, "Failed to execute query")
  ELSE Did(c, "execute_A", "execute_B")

\* Lines 119-121.
step_execute_B(c) ==
  IF c.fault = "execute_B"
  THEN Fail(c, "Failed to execute metadata query")
  ELSE Did(c, "execute_B", "metadata_B")

\* Lines 125-153.
step_metadata_B(c, fs) ==
  LET column_count == FileAt(fs, ParseStmt(c.query2).path).ncols
  IN IF c.fault = "column_name"
     THEN Fail(c, "Failed to get the column name at index")
     ELSE [Did(c, "metadata_B", "drain_A") EXCEPT
             !.column_count = column_count,
             !.column_names =
               [i \in 1..column_count |-> "col" \o ToString(i) \o "\n(Int)"]]

\* Lines 158-211: the rows of A to the end, each cell through the match.
step_drain_A(c, fs) ==
  LET rows == result_rows(c.query, fs)
  IN IF c.fault = "next_row"
     THEN Fail(c, "Failed to get row")
     ELSE IF \E r \in 1..Len(rows) : \E i \in 1..c.column_count :
               format_panics(rows[r][i])
     THEN Panic(c, "NaiveDate + TimeDelta overflowed")
     ELSE [Did(c, "drain_A", "timer_stop") EXCEPT
             !.row_list =
               [r \in 1..Len(rows) |->
                  [i \in 1..c.column_count |-> format_value(rows[r][i])]]]

\* Line 213.
step_timer_stop(c) ==
  [c EXCEPT !.duration = SubSeq(c.log, c.start + 1, Len(c.log)),
            !.pc = "prepare_C"]

\* Lines 216-218.
step_prepare_C(c, fs) ==
  IF c.fault = "prepare_C" \/ prepare_fails(c.query3, fs)
  THEN Fail(c, "Failed to create rowcount context with")
  ELSE Did(c, "prepare_C", "execute_C")

\* Lines 220-222.
step_execute_C(c) ==
  IF c.fault = "execute_C"
  THEN Fail(c, "Failed to execute query")
  ELSE Did(c, "execute_C", "read_C")

\* Lines 224-232.
step_read_C(c, fs) ==
  IF c.fault = "next_C" THEN Fail(c, "Failed to get row")
  ELSE IF c.fault = "no_count_row"
  THEN [Did(c, "read_C", "return") EXCEPT !.row_count = -1]
  ELSE IF c.fault = "get_C" \/ i32_out_of_range(count_value(c.query3, fs))
  THEN Fail(c, "Failed to get row count")
  ELSE [Did(c, "read_C", "return") EXCEPT
          !.row_count = i32_of(count_value(c.query3, fs))]

\* Lines 234-240.
step_return(c) == Leave(c, "ok", "")

\* One step of the call c, in a session that would get the id sid.
FetchStep(c, fs, bld, sid) ==
  CASE c.pc = "check_page" -> step_check_page(c)
    [] c.pc = "open" -> step_open(c, sid)
    [] c.pc = "extension" -> step_extension(c)
    [] c.pc = "build" -> step_build(c, bld)
    [] c.pc = "timer_start" -> step_timer_start(c)
    [] c.pc = "prepare_A" -> step_prepare_A(c, fs)
    [] c.pc = "prepare_B" -> step_prepare_B(c, fs)
    [] c.pc = "execute_A" -> step_execute_A(c)
    [] c.pc = "execute_B" -> step_execute_B(c)
    [] c.pc = "metadata_B" -> step_metadata_B(c, fs)
    [] c.pc = "drain_A" -> step_drain_A(c, fs)
    [] c.pc = "timer_stop" -> step_timer_stop(c)
    [] c.pc = "prepare_C" -> step_prepare_C(c, fs)
    [] c.pc = "execute_C" -> step_execute_C(c)
    [] c.pc = "read_C" -> step_read_C(c, fs)
    [] c.pc = "return" -> step_return(c)

\* ------------------------------------------------------------------------
\* loader.rs and main.rs: update_table_async and the window it updates
\* ------------------------------------------------------------------------

\* The whole of fetch_data from where the call c stands.
RECURSIVE fetch_data(_, _, _, _)
fetch_data(c, fs, bld, sid) ==
  IF c.pc = "returned" THEN c
  ELSE fetch_data(FetchStep(c, fs, bld, sid), fs, bld, sid)

DefaultPageSize == 20

\* The properties of GlobalState before any handler has run.
InitialUi ==
  [page_loading |-> FALSE, filename |-> <<>>, pagination_enabled |-> FALSE,
   record_count |-> 0, sort_index |-> -1, sort_order |-> 0, max_pages |-> 1,
   page_number |-> 1, page_size |-> DefaultPageSize, error_message |-> <<>>,
   has_error |-> FALSE, column_names |-> <<>>, row_data |-> <<>>,
   duration |-> <<>>]

set_ui_defaults(u) ==
  [u EXCEPT !.page_loading = TRUE, !.filename = <<>>,
            !.pagination_enabled = FALSE, !.record_count = 10,
            !.sort_index = -1, !.sort_order = 0, !.max_pages = 1,
            !.page_number = 1, !.error_message = <<>>, !.has_error = FALSE,
            !.column_names = <<>>, !.row_data = <<>>]

error_message(filename) == <<"Error reading file '">> \o filename \o <<"'">>

\* i32 division of Rust: towards zero; it panics on 0 and on MIN / -1.
div_panics(a, b) == b = 0 \/ (a = MinI32 /\ b = -1)

Abs(a) == IF a < 0 THEN -a ELSE a

i32_div(a, b) ==
  IF (a < 0) = (b < 0) THEN Abs(a) \div Abs(b) ELSE -(Abs(a) \div Abs(b))

\* The closures handed to upgrade_in_event_loop.
update_table_ui(req, load_table_columns, results, page_size, filename) ==
  [kind |-> "update_table_ui", req |-> req,
   load_table_columns |-> load_table_columns,
   column_names |-> results.column_names, rows |-> results.row_list,
   row_count |-> results.row_count, duration |-> results.duration,
   page_size |-> page_size, filename |-> filename]

stop_page_loading(req) == [kind |-> "stop_page_loading", req |-> req]

set_error(req, message) ==
  [kind |-> "set_error", req |-> req, message |-> message]

\* What update_table_async posts once fetch_data has returned c; a panic of
\* fetch_data unwinds through it and nothing is posted.
update_table_async(req, load_table_columns, c) ==
  CASE c.outcome = "ok" ->
         <<update_table_ui(req, load_table_columns, c, c.page_size, c.filename),
           stop_page_loading(req)>>
    [] c.outcome = "err" -> <<stop_page_loading(req)>>
    [] OTHER -> <<>>

\* What the task spawned by a handler posts after update_table_async: the
\* open-file handler reports the error, the update handler drops it.
spawned_task(req, origin, load_table_columns, c) ==
  update_table_async(req, load_table_columns, c)
    \o IF origin = "open" /\ c.outcome = "err"
       THEN <<set_error(req, error_message(c.filename))>>
       ELSE <<>>

\* The page count of line 348.
max_pages_panics(cl, bld) ==
  \/ div_panics(cl.row_count, cl.page_size)
  \/ bld = "debug" /\ i32_div(cl.row_count, cl.page_size) = MaxI32

\* Variant that drops the table update of a request that is not the latest.
run_closure_latest_only(u, cl, bld) ==
  CASE cl.kind = "stop_page_loading" -> [u EXCEPT !.page_loading = FALSE]
    [] cl.kind = "set_error" ->
         [u EXCEPT !.error_message = cl.message, !.has_error = TRUE]
    [] cl.kind = "update_table_ui" ->
         IF cl.req # Len(tasks) THEN u
         ELSE [u EXCEPT
                 !.column_names =
                   IF cl.load_table_columns THEN cl.column_names ELSE @,
                 !.row_data = cl.rows, !.record_count = cl.row_count,
                 !.pagination_enabled = TRUE,
                 !.max_pages =
                   WrapAdd(i32_div(cl.row_count, cl.page_size), 1),
                 !.duration = cl.duration, !.filename = cl.filename]

\* Variant that counts the pages by rounding the quotient up.
run_closure_ceiling(u, cl, bld) ==
  CASE cl.kind = "stop_page_loading" -> [u EXCEPT !.page_loading = FALSE]
    [] cl.kind = "set_error" ->
         [u EXCEPT !.error_message = cl.message, !.has_error = TRUE]
    [] cl.kind = "update_table_ui" ->
         [u EXCEPT
            !.column_names =
              IF cl.load_table_columns THEN cl.column_names ELSE @,
            !.row_data = cl.rows, !.record_count = cl.row_count,
            !.pagination_enabled = TRUE,
            !.max_pages =
              IF max_pages_panics(cl, bld) THEN @
              ELSE i32_div(cl.row_count + cl.page_size - 1, cl.page_size),
            !.duration = cl.duration, !.filename = cl.filename]

\* The closure cl run by the event loop on the properties u.
run_closure(u, cl, bld) ==
  CASE cl.kind = "stop_page_loading" -> [u EXCEPT !.page_loading = FALSE]
    [] cl.kind = "set_error" ->
         [u EXCEPT !.error_message = cl.message, !.has_error = TRUE]
    [] cl.kind = "update_table_ui" ->
         IF max_pages_panics(cl, bld)
         THEN [u EXCEPT
                 !.column_names =
                   IF cl.load_table_columns THEN cl.column_names ELSE @,
                 !.row_data = cl.rows, !.record_count = cl.row_count,
                 !.pagination_enabled = TRUE]
         ELSE [u EXCEPT
                 !.column_names =
                   IF cl.load_table_columns THEN cl.column_names ELSE @,
                 !.row_data = cl.rows, !.record_count = cl.row_count,
                 !.pagination_enabled = TRUE,
                 !.max_pages =
                   WrapAdd(i32_div(cl.row_count, cl.page_size), 1),
                 !.duration = cl.duration, !.filename = cl.filename]

closure_panics(cl, bld) ==
  cl.kind = "update_table_ui" /\ max_pages_panics(cl, bld)

Task(origin, load_table_columns, c, state) ==
  [origin |-> origin, load_table_columns |-> load_table_columns,
   call |-> c, state |-> state]

\* on_update_table_async: the request is read off the properties.
on_update_table_async(u) ==
  Task("update", FALSE,
       NewCall(u.filename, u.page_number, u.page_size, u.sort_index,
               u.sort_order, "none"),
       "spawned")

\* on_open_file_async and the start with a file name: the first page.
first_page(origin, filename, state) ==
  Task(origin, TRUE,
       NewCall(filename, 1, DefaultPageSize, -1, 0, "none"), state)

\* ------------------------------------------------------------------------
\* The requests and files the calls are run on
\* ------------------------------------------------------------------------

P_csv == <<"d", ".", "c", "s", "v">>

P_CSV == <<"d", ".", "C", "S", "V">>

P_parquet == <<"d", ".", "p", "a", "r", "q", "u", "e", "t">>

P_Parquet == <<"d", ".", "P", "a", "r", "Q", "u", "e", "t">>

P_nested == <<"a", ".", "b", ".", "c", "s", "v">>

P_dotcsv == <<".", "c", "s", "v">>

P_quote == <<"o", "'", "b", ".", "c", "s", "v">>

P_noext == <<"d", "a", "t", "a">>

P_csvname == <<"c", "s", "v">>

P_dot == <<"d", ".">>

P_csvdot == <<"d", ".", "c", "s", "v", ".">>

P_txt == <<"d", ".", "t", "x", "t">>

P_gz == <<"d", ".", "c", "s", "v", ".", "g", "z">>

P_empty == <<>>

Paths ==
  {P_csv, P_CSV, P_parquet, P_Parquet, P_nested, P_dotcsv, P_quote, P_noext,
   P_csvname, P_dot, P_csvdot, P_txt, P_gz, P_empty}

PageNumbers == {-1, 0, 1, 2, 3}

PageSizes == {1, 2, 3}

SortIndexes == {-1, 0, 1, 2, 3}

SortOrders == {0, 1, 2, 3}

RowCounts == {0, 3, MaxRows}

\* The values of a typed column.
SampleValues ==
  {Val("Null", 0), Val("Boolean", 1), Val("Int", -7), Val("Text", 1),
   Val("Blob", 2), Val("Blob", 20), Val("Interval", 0), Val("Error", 1),
   Val("Date32", 0), Val("Date32", -1), Val("Date32", 19275),
   Val("Date32", MaxNaiveDateDays), Val("Date32", MaxNaiveDateDays + 1),
   Val("Date32", MinNaiveDateDays), Val("Date32", MinNaiveDateDays - 1),
   Val("Date32", MaxI32), Val("Date32", MinI32)}

Scenario(filename, page_number, page_size, sort_index, sort_order, fs, fault, bld) ==
  [call |-> NewCall(filename, page_number, page_size, sort_index, sort_order, fault),
   files |-> fs, build |-> bld]

\* The file the request names is there with some number of rows, or missing.
FileSets(path) == {{}} \cup {{MkFile(path, PlainRows(n))} : n \in RowCounts}

GridScenarios ==
  UNION {{Scenario(f, p, s, i, o, fs, "none", "release") :
            p \in PageNumbers, s \in PageSizes, i \in SortIndexes,
            o \in SortOrders, fs \in FileSets(f)} : f \in Paths}

\* Every fault of the engine, in both builds.
FaultScenarios ==
  {Scenario(f, p, 2, i, o, {MkFile(f, PlainRows(MaxRows))}, fault, bld) :
     f \in {P_csv, P_parquet}, p \in {1, 2}, i \in {-1, 1}, o \in {0, 2},
     fault \in Faults \ {"none"}, bld \in Builds}

\* Requests whose offset leaves i32, and page sizes below 1.
LargePageNumbers == {2, 3, 65537, MaxI32}

LargePageSizes == {-1, 0, 65536, 1073741824, MaxI32}

OverflowScenarios ==
  {Scenario(P_csv, p, s, -1, 0, {MkFile(P_csv, PlainRows(n))}, "none", bld) :
     p \in LargePageNumbers, s \in LargePageSizes, n \in {3, MaxRows},
     bld \in Builds}

\* Files with a typed second column.
TypedRows(v) == <<<<Val("Int", 1), v>>>>

ValueScenarios ==
  {Scenario(P_parquet, 1, s, i, 0, {MkFile(P_parquet, TypedRows(v))}, "none", bld) :
     s \in {1, 3}, i \in {-1, 2}, v \in SampleValues, bld \in Builds}

\* Files of more rows than an i32 counts, and of as many as it can count.
LargeCounts ==
  {I64(FALSE, DecimalDigits(MaxI32)),
   I64(FALSE, <<2, 1, 4, 7, 4, 8, 3, 6, 4, 8>>),
   I64(FALSE, <<9, 2, 2, 3, 3, 7, 2, 0, 3, 6, 8, 5, 4, 7, 7, 5, 8, 0, 7>>)}

CountScenarios ==
  {Scenario(P_csv, 1, s, -1, 0, {MkLongFile(P_csv, PlainRows(3), n)}, f, bld) :
     s \in {2, 3}, n \in LargeCounts, f \in {"none", "no_count_row"},
     bld \in Builds}

\* The payload of a Timestamp or Time64: the unit and the i64.
TimeValue(unit, x) == [unit |-> unit, x |-> x]

\* Timestamps before, at and after the epoch, with and without a part below
\* the second, and at both ends of what a date-time can hold.
SampleTimestamps ==
  {Val("Timestamp", TimeValue("Second", I64(FALSE, <<1, 6, 1, 4, 7, 6, 4, 6, 6, 1>>))),
   Val("Timestamp", TimeValue("Second", I64(FALSE, <<0>>))),
   Val("Timestamp", TimeValue("Second", I64(TRUE, <<1>>))),
   Val("Timestamp", TimeValue("Second", I64(FALSE, <<9, 2, 2, 3, 3, 7, 2, 0, 3, 6, 8, 5, 4, 7, 7, 5, 8, 0, 7>>))),
   Val("Timestamp", TimeValue("Second", I64(FALSE, <<8, 2, 1, 0, 2, 6, 6, 8, 7, 6, 7, 9, 9>>))),
   Val("Timestamp", TimeValue("Second", I64(FALSE, <<8, 2, 1, 0, 2, 6, 6, 8, 7, 6, 8, 0, 0>>))),
   Val("Timestamp", TimeValue("Millisecond", I64(FALSE, <<1, 6, 1, 4, 7, 6, 4, 6, 6, 1, 0, 0, 0>>))),
   Val("Timestamp", TimeValue("Millisecond", I64(TRUE, <<1>>))),
   Val("Timestamp", TimeValue("Millisecond", I64(TRUE, <<1, 0, 0, 0>>))),
   Val("Timestamp", TimeValue("Millisecond", I64(FALSE, <<1, 5, 0, 0>>))),
   Val("Timestamp", TimeValue("Millisecond", I64(TRUE, <<1, 5, 0, 0>>))),
   Val("Timestamp", TimeValue("Microsecond", I64(FALSE, <<1, 6, 1, 4, 7, 6, 4, 6, 6, 1, 0, 0, 0, 0, 0, 0>>))),
   Val("Timestamp", TimeValue("Microsecond", I64(TRUE, <<1>>))),
   Val("Timestamp", TimeValue("Nanosecond", I64(FALSE, <<1, 6, 1, 4, 7, 6, 4, 6, 6, 1, 0, 0, 0, 0, 0, 0, 0, 0, 0>>))),
   Val("Timestamp", TimeValue("Nanosecond", I64(TRUE, <<1>>))),
   Val("Timestamp", TimeValue("Nanosecond", I64(TRUE, <<9, 2, 2, 3, 3, 7, 2, 0, 3, 6, 8, 5, 4, 7, 7, 5, 8, 0, 8>>)))}

\* Times of day inside and outside the day, and past 32 bits of seconds.
SampleTimes ==
  {Val("Time64", TimeValue("Second", I64(FALSE, <<3, 6, 6, 1>>))),
   Val("Time64", TimeValue("Second", I64(FALSE, <<8, 6, 3, 9, 9>>))),
   Val("Time64", TimeValue("Second", I64(FALSE, <<8, 6, 4, 0, 0>>))),
   Val("Time64", TimeValue("Second", I64(TRUE, <<1>>))),
   Val("Time64", TimeValue("Second", I64(FALSE, <<4, 2, 9, 4, 9, 6, 7, 2, 9, 6>>))),
   Val("Time64", TimeValue("Second", I64(FALSE, <<4, 2, 9, 4, 9, 7, 0, 9, 5, 7>>))),
   Val("Time64", TimeValue("Millisecond", I64(FALSE, <<8, 6, 3, 9, 9, 9, 9, 9>>))),
   Val("Time64", TimeValue("Millisecond", I64(TRUE, <<1>>))),
   Val("Time64", TimeValue("Millisecond", I64(FALSE, <<4, 2, 9, 4, 9, 6, 7, 2, 9, 6, 0, 0, 0>>))),
   Val("Time64", TimeValue("Microsecond", I64(FALSE, <<8, 6, 3, 9, 9, 9, 9, 9, 9, 9, 9>>))),
   Val("Time64", TimeValue("Microsecond", I64(FALSE, <<8, 6, 4, 0, 0, 0, 0, 0, 0, 0, 0>>))),
   Val("Time64", TimeValue("Nanosecond", I64(FALSE, <<8, 6, 3, 9, 9, 9, 9, 9, 9, 9, 9, 9, 9, 9>>))),
   Val("Time64", TimeValue("Nanosecond", I64(TRUE, <<1>>))),
   Val("Time64", TimeValue("Nanosecond", I64(FALSE, <<9, 2, 2, 3, 3, 7, 2, 0, 3, 6, 8, 5, 4, 7, 7, 5, 8, 0, 7>>)))}

TimeScenarios ==
  {Scenario(P_parquet, 1, 3, -1, 0, {MkFile(P_parquet, TypedRows(v))}, "none", bld) :
     v \in SampleTimestamps \cup SampleTimes, bld \in Builds}

Scenarios ==
  GridScenarios \cup FaultScenarios \cup OverflowScenarios
    \cup ValueScenarios \cup CountScenarios \cup TimeScenarios

\* ------------------------------------------------------------------------
\* SpecFetch: one call of update_table_async, and of fetch_data in it, on
\* every scenario
\* ------------------------------------------------------------------------

InitFetch ==
  /\ \E sc \in Scenarios :
       /\ call = sc.call
       /\ files = sc.files
       /\ build = sc.build
  /\ phase = "running"
  /\ ui = set_ui_defaults(InitialUi)
  /\ tasks = <<>>
  /\ queue = <<>>
  /\ applied = <<>>
  /\ console = <<>>

At(pc) == call.pc = pc

Stay == UNCHANGED <<files, build, app_vars>>

CheckPage == At("check_page") /\ call' = step_check_page(call) /\ Stay

OpenSession == At("open") /\ call' = step_open(call, 1) /\ Stay

Extension == At("extension") /\ call' = step_extension(call) /\ Stay

BuildQueries == At("build") /\ call' = step_build(call, build) /\ Stay

TimerStart == At("timer_start") /\ call' = step_timer_start(call) /\ Stay

PrepareA == At("prepare_A") /\ call' = step_prepare_A(call, files) /\ Stay

PrepareB == At("prepare_B") /\ call' = step_prepare_B(call, files) /\ Stay

ExecuteA == At("execute_A") /\ call' = step_execute_A(call) /\ Stay

ExecuteB == At("execute_B") /\ call' = step_execute_B(call) /\ Stay

MetadataB == At("metadata_B") /\ call' = step_metadata_B(call, files) /\ Stay

DrainA == At("drain_A") /\ call' = step_drain_A(call, files) /\ Stay

TimerStop == At("timer_stop") /\ call' = step_timer_stop(call) /\ Stay

PrepareC == At("prepare_C") /\ call' = step_prepare_C(call, files) /\ Stay

ExecuteC == At("execute_C") /\ call' = step_execute_C(call) /\ Stay

ReadC == At("read_C") /\ call' = step_read_C(call, files) /\ Stay

Return == At("return") /\ call' = step_return(call) /\ Stay

\* update_table_async after fetch_data has returned (loader.rs:259-277): the
\* closures are posted; after a panic of fetch_data there is nothing to post.
PostResult ==
  /\ At("returned")
  /\ tasks = <<>>
  /\ tasks' = <<Task("call", TRUE, call, "done")>>
  /\ queue' = update_table_async(1, TRUE, call)
  /\ UNCHANGED <<call, files, build, phase, ui, applied, console>>

\* The event loop runs the oldest closure posted by the call.
RunPosted ==
  /\ phase = "running"
  /\ queue # <<>>
  /\ ui' = run_closure(ui, Head(queue), build)
  /\ queue' = Tail(queue)
  /\ applied' = IF Head(queue).kind = "update_table_ui"
                THEN Append(applied, Head(queue).req)
                ELSE applied
  /\ phase' = IF closure_panics(Head(queue), build) THEN "crashed" ELSE phase
  /\ UNCHANGED <<call, files, build, tasks, console>>

NextFetch ==
  \/ CheckPage \/ OpenSession \/ Extension \/ BuildQueries \/ TimerStart
  \/ PrepareA \/ PrepareB \/ ExecuteA \/ ExecuteB \/ MetadataB \/ DrainA
  \/ TimerStop \/ PrepareC \/ ExecuteC \/ ReadC \/ Return
  \/ PostResult \/ RunPosted

SpecFetch == InitFetch /\ [][NextFetch]_vars

\* ------------------------------------------------------------------------
\* Spec: the application, from main to the event loop
\* ------------------------------------------------------------------------

MaxRequests == 3

ManyRows == 25

IdleCall == NewCall(<<>>, 1, DefaultPageSize, -1, 0, "none")

\* The directory the viewer is used in: a table of more than one page, a
\* table whose name holds a quote, a file that is no table.
Disk ==
  {MkFile(P_csv, PlainRows(ManyRows)), MkFile(P_quote, PlainRows(3)),
   MkFile(P_txt, PlainRows(3))}

\* The file named on the command line, if any (<<>>: none).
CliArgs == {<<>>, P_csv, P_txt, P_noext}

\* The order a click on a column header asks for.
UiSortOrders == {2}

\* The files the dialog's filters show.
DialogPaths == {P_csv, P_quote}

Init ==
  /\ call = IdleCall
  /\ files = Disk
  /\ build = "release"
  /\ phase = "startup"
  /\ ui = InitialUi
  /\ tasks = <<>>
  /\ queue = <<>>
  /\ applied = <<>>
  /\ console = <<>>

Fixed == UNCHANGED <<call, build>>

\* The sessions opened so far; the next one is a new one.
SessionsOpened ==
  Cardinality({t \in DOMAIN tasks : tasks[t].call.log # <<>>})

\* The start with a file name that names a file, fetch_data having returned
\* c: what main posts and prints (lines 167-187).
MainWithFile(arg, c) ==
  /\ ui' = set_ui_defaults(ui)
  /\ tasks' = <<Task("cli", TRUE, c, "done")>>
  /\ queue' = update_table_async(1, TRUE, c)
  /\ console' =
       IF c.outcome = "err"
       THEN Append(console, <<"Error: ">> \o error_message(arg))
       ELSE console
  /\ phase' = IF c.outcome = "panic" THEN "crashed" ELSE "running"

\* main up to ui.run(): with a file name that names a file the first page is
\* fetched and posted on the main thread itself (lines 164-191).
Main(arg) ==
  /\ phase = "startup"
  /\ IF arg = <<>>
     THEN /\ phase' = "running"
          /\ UNCHANGED <<ui, tasks, queue, console>>
     ELSE IF ~HasFile(files, arg)
     THEN /\ phase' = "running"
          /\ UNCHANGED <<ui, tasks, queue, console>>
     ELSE MainWithFile(arg, fetch_data(first_page("cli", arg, "done").call,
                                       files, build, 1))
  /\ UNCHANGED <<files, applied>>
  /\ Fixed

CanIssue == phase = "running" /\ Len(tasks) < MaxRequests

\* on_open_file_async with the file the user picked (lines 98-160).
OpenFile(path) ==
  /\ CanIssue
  /\ HasFile(files, path)
  /\ ui' = set_ui_defaults(ui)
  /\ tasks' = Append(tasks, first_page("open", path, "spawned"))
  /\ UNCHANGED <<files, phase, queue, applied, console>>
  /\ Fixed

\* The window turns to page p and calls on_update_table_async.
PageUpdate(p) ==
  /\ CanIssue
  /\ ui.pagination_enabled
  /\ p # ui.page_number
  /\ ui' = [ui EXCEPT !.page_number = p]
  /\ tasks' = Append(tasks, on_update_table_async(ui'))
  /\ UNCHANGED <<files, phase, queue, applied, console>>
  /\ Fixed

\* The window sorts on column i in order o and calls on_update_table_async.
SortUpdate(i, o) ==
  /\ CanIssue
  /\ ui.pagination_enabled
  /\ <<i, o>> # <<ui.sort_index, ui.sort_order>>
  /\ ui' = [ui EXCEPT !.sort_index = i, !.sort_order = o]
  /\ tasks' = Append(tasks, on_update_table_async(ui'))
  /\ UNCHANGED <<files, phase, queue, applied, console>>
  /\ Fixed

\* The task t has run fetch_data to its end, c, and posts what it has to.
FetchWith(t, c) ==
  /\ tasks' = [tasks EXCEPT ![t].call = c, ![t].state = "done"]
  /\ queue' = queue \o spawned_task(t, tasks[t].origin,
                                    tasks[t].load_table_columns, c)

\* A spawned task runs: update_table_async, in a session of its own, and
\* what the handler does with its result.
Fetch(t) ==
  /\ phase = "running"
  /\ tasks[t].state = "spawned"
  /\ FetchWith(t, fetch_data(tasks[t].call, files, build, SessionsOpened + 1))
  /\ UNCHANGED <<files, phase, ui, applied, console>>
  /\ Fixed

\* The event loop runs the oldest closure; a panic in it ends the program.
EventLoop ==
  /\ phase = "running"
  /\ queue # <<>>
  /\ ui' = run_closure(ui, Head(queue), build)
  /\ queue' = Tail(queue)
  /\ applied' = IF Head(queue).kind = "update_table_ui"
                THEN Append(applied, Head(queue).req)
                ELSE applied
  /\ phase' = IF closure_panics(Head(queue), build) THEN "crashed" ELSE phase
  /\ UNCHANGED <<files, tasks, console>>
  /\ Fixed

\* Somebody removes the file the viewer shows.
RemoveFile(path) ==
  /\ phase = "running"
  /\ ui.filename = path
  /\ HasFile(files, path)
  /\ files' = {f \in files : f.path # path}
  /\ UNCHANGED app_vars
  /\ Fixed

Next ==
  \/ \E arg \in CliArgs : Main(arg)
  \/ \E path \in DialogPaths : OpenFile(path)
  \/ \E p \in 1..ui.max_pages : PageUpdate(p)
  \/ \E i \in 1..Len(ui.column_names), o \in UiSortOrders : SortUpdate(i, o)
  \/ \E t \in DOMAIN tasks : Fetch(t)
  \/ EventLoop
  \/ \E path \in {P_csv} : RemoveFile(path)

Spec == Init /\ [][Next]_vars

\* ------------------------------------------------------------------------
\* Claims about fetch_data (checked under SpecFetch)
\* ------------------------------------------------------------------------

Returned == call.pc = "returned"

Succeeded == Returned /\ call.outcome = "ok"

Built == call.query # <<>>

Statements == {call.query, call.query2, call.query3}

InvalidPageError == "Page number must be greater than 0"

UnsupportedError == "Unsupported or unknown file type"

\* C1: a call with page_number < 1 does nothing but return the invalid-page
\* error: whatever the path, the page size, the sort index and the sort
\* order, it opens no session and prepares or executes no statement.
C1_InvalidPageFailsFirst ==
  call.page_number < 1 =>
    /\ call.pc \in {"check_page", "returned"}
    /\ call.log = <<>>
    /\ call.conn = 0
    /\ Returned => call.outcome = "err" /\ call.error = InvalidPageError

C1_Witness ==
  /\ Returned
  /\ call.page_number = 0
  /\ call.filename = P_parquet
  /\ call.sort_index = 1
  /\ \E f \in files : f.path = call.filename

\* C2: in each of the three statements the path stands between the quotes
\* with every quote of it doubled, so the literal denotes the path and the
\* statement reads as the scan the code meant.
DoubleQuotes(path) ==
  LET Pos(i) == i + Cardinality({j \in 1..(i - 1) : path[j] = "'"})
      n == Len(path) + Cardinality({j \in 1..Len(path) : path[j] = "'"})
  IN [k \in 1..n |->
        IF \E i \in 1..Len(path) : Pos(i) = k
        THEN path[CHOOSE i \in 1..Len(path) : Pos(i) = k]
        ELSE "'"]

C2_PathIsEscapedLiteral ==
  Built =>
    \A q \in Statements :
      /\ SubSeq(q, 5, 4 + Len(DoubleQuotes(call.filename)))
           = DoubleQuotes(call.filename)
      /\ ParseStmt(q).ok
      /\ ParseStmt(q).path = call.filename
      /\ ParseStmt(q).fn = call.scan_function

\* The engine steps of the log, without the session's open and close.
IsStatementStep(e) == e \notin {"open", "close"}

StatementLog == SelectSeq(call.log, IsStatementStep)

IsPrefix(s, t) == Len(s) <= Len(t) /\ s = SubSeq(t, 1, Len(s))

CodeOrder ==
  <<"prepare_A", "prepare_B", "execute_A", "execute_B", "metadata_B",
    "drain_A", "prepare_C", "execute_C", "read_C">>

Occurs(s, e) == \E i \in 1..Len(s) : s[i] = e

\* C3 as stated: B is prepared and executed before any step of A, and C comes
\* after the rows of A.
C3_SchemaStatementFirst ==
  \A i \in 1..Len(call.log) :
    /\ call.log[i] \in {"prepare_A", "execute_A", "drain_A"} =>
         \E j, k \in 1..(i - 1) :
           call.log[j] = "prepare_B" /\ call.log[k] = "execute_B"
    /\ call.log[i] \in {"prepare_C", "execute_C", "read_C"} =>
         \E j \in 1..(i - 1) : call.log[j] = "drain_A"

\* C3 as amended: A is prepared, then B is prepared, then A is executed, then
\* B is executed and its metadata read, then the rows of A are iterated to
\* the end, and C is prepared, executed and read last.
C3_StatementOrder == IsPrefix(StatementLog, CodeOrder)

C3_Witness == Succeeded /\ StatementLog = CodeOrder

ExpectedRows(page_number, page_size, n) ==
  IF MulOverflows(page_number - 1, page_size) THEN 0
  ELSE LET left == n - ((page_number - 1) * page_size)
       IN IF left < 0 THEN 0
          ELSE IF left < page_size THEN left ELSE page_size

C5_PageLength ==
  (Succeeded /\ call.page_number >= 1 /\ call.page_size >= 1
     /\ call.fault # "no_count_row") =>
    /\ Len(call.row_list) <= call.page_size
    /\ Len(call.row_list)
         = ExpectedRows(call.page_number, call.page_size, call.row_count)

\* C8: formatting never fails: no value makes the row loop panic, a cell that
\* cannot be read shows as "Error: ...", and every row has one cell for each
\* column.
C8_FormattingIsTotal ==
  /\ ~(Returned /\ call.outcome = "panic"
         /\ call.error = "NaiveDate + TimeDelta overflowed")
  /\ \A r \in 1..Len(call.row_list) :
       Len(call.row_list[r]) = call.column_count

\* C9: a path is accepted exactly when the text after its last dot is
\* "parquet" or "csv" in any letter case; the extension alone picks the scan
\* function of all three statements; any other path, one without a dot or
\* ending in a dot included, fails with the unsupported-type error and no
\* statement is prepared.
SuffixIs(path, ext) ==
  \E i \in 1..Len(path) :
    /\ path[i] = "."
    /\ \A j \in (i + 1)..Len(path) : path[j] # "."
    /\ Len(path) - i = Len(ext)
    /\ \A k \in 1..Len(ext) : ToLowerChar(path[i + k]) = ext[k]

ScanOf(path) ==
  IF SuffixIs(path, ExtParquet) THEN "parquet_scan"
  ELSE IF SuffixIs(path, ExtCsv) THEN "read_csv_auto"
  ELSE "none"

PastExtension == call.pc \notin {"check_page", "open", "extension"}

C9_ExtensionSelectsScan ==
  (PastExtension /\ call.page_number >= 1 /\ call.fault # "open") =>
    IF ScanOf(call.filename) = "none"
    THEN /\ Returned /\ call.outcome = "err"
         /\ call.error = UnsupportedError
         /\ StatementLog = <<>>
         /\ ~Built
    ELSE /\ call.scan_function = ScanOf(call.filename)
         /\ call.error # UnsupportedError
         /\ Built => \A q \in Statements : q[2] = ScanOf(call.filename)

C9_Witness ==
  /\ Succeeded
  /\ call.filename = P_Parquet
  /\ call.query3[2] = "parquet_scan"

\* C10: Statement A carries an ORDER BY clause exactly when sort_index > 0,
\* with ASC for sort order 1, DESC for 2 and no direction for any other
\* value; Statements B and C never carry one.
OrderByAt(q) == {i \in 1..Len(q) : q[i] = " ORDER BY "}

C10_OrderByOnlyWhenPositive ==
  Built =>
    /\ OrderByAt(call.query2) = {}
    /\ OrderByAt(call.query3) = {}
    /\ call.sort_index <= 0 => OrderByAt(call.query) = {}
    /\ call.sort_index > 0 =>
         /\ Cardinality(OrderByAt(call.query)) = 1
         /\ LET i == CHOOSE k \in OrderByAt(call.query) : TRUE
                n == Len(i32_to_string(call.sort_index))
            IN /\ SubSeq(call.query, i + 1, i + n)
                    = i32_to_string(call.sort_index)
               /\ call.query[i + n + 1] = " "
               /\ call.query[i + n + 2] =
                    CASE call.sort_order = 1 -> "ASC"
                      [] call.sort_order = 2 -> "DESC"
                      [] OTHER -> ""
               /\ call.query[i + n + 3] = " LIMIT "

C10_Witness ==
  /\ Succeeded
  /\ call.sort_index = 2
  /\ call.sort_order = 3
  /\ OrderByAt(call.query) # {}

\* C11: a call with sort index 0 returns an error.
C11_SortIndexZeroFails ==
  (Returned /\ call.sort_index = 0) => call.outcome = "err"

\* C12: for page_number >= 1 and page_size >= 1 the offset of Statement A is
\* the product (page_number - 1) * page_size, which is not negative: the
\* statement ends LIMIT page_size OFFSET product, and the computation neither
\* wraps nor panics.
C12_OffsetIsProduct ==
  (call.page_number >= 1 /\ call.page_size >= 1) =>
    /\ call.error # "attempt to multiply with overflow"
    /\ Built =>
         /\ call.offset >= 0
         /\ call.offset \div call.page_size = call.page_number - 1
         /\ call.offset % call.page_size = 0
         /\ LET tail == <<" LIMIT ">> \o i32_to_string(call.page_size)
                          \o <<" OFFSET ">> \o i32_to_string(call.offset)
            IN SubSeq(call.query, Len(call.query) - Len(tail) + 1,
                      Len(call.query)) = tail

\* The table update of the call has been run by the event loop.
Updated == applied = <<1>> /\ phase = "running"

\* The pages of size page_size that hold a row of a table of n rows.
NonEmptyPages(n, page_size) ==
  Cardinality({p \in 1..n : p - 1 <= (n - 1) \div page_size})

C19_NoDivisionByZero ==
  /\ \A i \in 1..Len(queue) :
       queue[i].kind = "update_table_ui" => queue[i].page_size >= 1
  /\ phase # "crashed"

\* C14: when the count statement has been executed and reading it does not
\* fail in the engine, the call succeeds, and its row_count is -1 when the
\* statement returned no row and otherwise the count the statement returned,
\* whatever i64 that is.
C14_RowCountIsCount ==
  (Returned /\ Occurs(call.log, "execute_C")
     /\ call.fault \notin {"next_C", "get_C"}) =>
    /\ call.outcome = "ok"
    /\ IF call.fault = "no_count_row" THEN call.row_count = -1
       ELSE /\ call.row_count >= 0
            /\ I64(FALSE, DecimalDigits(call.row_count))
                 = count_value(call.query3, files)

\* The instant x units after 1970-01-01T00:00:00 UTC, as text: the whole
\* seconds are rounded down, so that the part below the second is never
\* negative.
InstantText(unit, x) ==
  LET k == UnitDigits(unit)
      whole == div_pow10(x, k).digits
      low == DigitsValue(rem_pow10(x, k).digits)
      borrow == x.neg /\ low # 0
      frac == IF borrow THEN Pow10[k + 1] - low ELSE low
      q == Strip(QuotDigits(whole, 86400))
      r == RemAt(whole, Len(whole), 86400)
      days == IF ~x.neg THEN DigitsValue(q)
              ELSE IF borrow \/ r # 0 THEN -DigitsValue(q) - 1
              ELSE -DigitsValue(q)
      secs == IF ~x.neg THEN r
              ELSE IF borrow THEN 86399 - r
              ELSE IF r = 0 THEN 0 ELSE 86400 - r
  IN IF Len(q) > 9 THEN "Invalid Time"
     ELSE IF days > MaxNaiveDateDays \/ days < MinNaiveDateDays
     THEN "Invalid Time"
     ELSE date32_to_ymd(days) \o "T" \o FormatHMS(secs)
            \o FormatFraction(frac * Pow10[(9 - k) + 1], k) \o "+00:00"

\* The cells of the typed column whose value has the given tag: the row of
\* the file and the cell of the result.
TypedCells(tag) ==
  {<<f.rows[r][2], call.row_list[r][2]>> :
     <<f, r>> \in {<<f, r>> \in files \X (1..Len(call.row_list)) :
                     f.rows[r][2].tag = tag}}

\* C16: a timestamp of any unit is shown as the instant it denotes, before
\* the epoch as well as after it, and as "Invalid Time" only when no
\* date-time holds that instant.
C16_TimestampRendersInstant ==
  (Succeeded /\ call.page_number = 1 /\ call.sort_index < 1) =>
    \A cell \in TypedCells("Timestamp") :
      cell[2] = InstantText(cell[1].v.unit, cell[1].v.x)

\* The time of day x units after midnight, as text.
TimeOfDayText(unit, x) ==
  LET k == UnitDigits(unit)
      whole == div_pow10(x, k).digits
      low == DigitsValue(rem_pow10(x, k).digits)
  IN IF x.neg \/ DigitsLess(<<8, 6, 3, 9, 9>>, whole) THEN "Invalid Time"
     ELSE FormatHMS(DigitsValue(whole))
            \o FormatFraction(low * Pow10[(9 - k) + 1], k)

\* C17: a time of day of any unit is shown as HH:MM:SS and its fraction when
\* it lies within the day, and as "Invalid Time" otherwise.
C17_TimeOfDayOrInvalid ==
  (Succeeded /\ call.page_number = 1 /\ call.sort_index < 1) =>
    \A cell \in TypedCells("Time64") :
      cell[2] = TimeOfDayText(cell[1].v.unit, cell[1].v.x)

\* The number of times event e occurs in the log.
Count(log, e) == Cardinality({i \in 1..Len(log) : log[i] = e})

\* C15: a call that has opened a session holds it, and no other, until it
\* returns: everything it does to the engine lies between the one "open" and
\* the one "close" of its log, and once it has returned, with a result or
\* with any error, the session is closed.
C15_SessionReleasedOnEveryPath ==
  /\ call.log # <<>> => call.log[1] = "open"
  /\ Count(call.log, "open") = (IF call.session = 0 THEN 0 ELSE 1)
  /\ (~Returned /\ call.session # 0) =>
       call.conn = call.session /\ Count(call.log, "close") = 0
  /\ Returned =>
       /\ call.conn = 0
       /\ call.session # 0 =>
            /\ Count(call.log, "close") = 1
            /\ call.log[Len(call.log)] = "close"

\* The count statement failed after the rows were read, and the session is
\* closed.
C15_Witness ==
  /\ Returned
  /\ call.outcome = "err"
  /\ call.error = "Failed to get row count"
  /\ call.session # 0
  /\ call.conn = 0
  /\ call.log[Len(call.log)] = "close"
  /\ Occurs(call.log, "execute_C")

\* The table update of request t comes before its stop_page_loading in the
\* queue.
UpdateBeforeStop(t) ==
  \A i \in 1..Len(queue) :
    (queue[i].kind = "update_table_ui" /\ queue[i].req = t) =>
      \E j \in (i + 1)..Len(queue) :
        queue[j].kind = "stop_page_loading" /\ queue[j].req = t

\* No posted closure can be run any more: the queue is empty or the event
\* loop has died.
Stopped == queue = <<>> \/ phase = "crashed"

\* C18: once update_table_async has returned, with Ok or with Err, and the
\* event loop has run all it can run, page_loading is FALSE; and after a
\* success page_loading is not set to FALSE before the table update of the
\* call has been run.
C18_LoadingEventuallyStops ==
  /\ UpdateBeforeStop(1)
  /\ (call.outcome = "ok" /\ ~ui.page_loading) => applied = <<1>>
  /\ (call.outcome \in {"ok", "err"} /\ tasks # <<>> /\ Stopped) =>
       ~ui.page_loading

\* ------------------------------------------------------------------------
\* Claims about the application (checked under Spec)
\* ------------------------------------------------------------------------

Done(t) == tasks[t].state = "done"

Pending(t) == \E i \in 1..Len(queue) : queue[i].req = t

\* The table shows the result of request t.
Shows(t) ==
  /\ ui.row_data = tasks[t].call.row_list
  /\ ui.record_count = tasks[t].call.row_count
  /\ ui.filename = tasks[t].call.filename

\* C6: every fetch runs in a session of its own, and the table update of every
\* successful fetch is run by the event loop whether or not a later request
\* has been issued or shown: the table shows the result of the update that
\* ran last, which can be that of an earlier request.
C6_NoResultIsDiscarded ==
  /\ \A t1, t2 \in DOMAIN tasks :
       (t1 # t2 /\ tasks[t1].call.session # 0) =>
         tasks[t1].call.session # tasks[t2].call.session
  /\ \A t \in DOMAIN tasks :
       (Done(t) /\ tasks[t].call.outcome = "ok" /\ phase = "running") =>
         \/ \E i \in 1..Len(queue) :
              queue[i].kind = "update_table_ui" /\ queue[i].req = t
         \/ Occurs(applied, t)
  /\ (applied # <<>> /\ ui.pagination_enabled) => Shows(applied[Len(applied)])

\* Two updates issued one after the other have both completed and been
\* applied, and the table shows the earlier one.
C6_Witness ==
  /\ queue = <<>>
  /\ Len(tasks) = MaxRequests
  /\ \A t \in DOMAIN tasks : Done(t) /\ tasks[t].call.outcome = "ok"
  /\ tasks[MaxRequests - 1].origin = "update"
  /\ tasks[MaxRequests].origin = "update"
  /\ tasks[MaxRequests - 1].call.session > tasks[MaxRequests].call.session
  /\ applied[Len(applied)] = MaxRequests - 1
  /\ Shows(MaxRequests - 1)
  /\ ~Shows(MaxRequests)

\* C7: once a failed fetch has posted all it posts and the event loop has run
\* it, and no later request has reset the window, the window is in the error
\* state with a message that names the file of a failed fetch, whichever
\* handler started the fetch.
Surfaced ==
  /\ ui.has_error
  /\ \E t \in DOMAIN tasks :
       /\ tasks[t].call.outcome = "err"
       /\ ui.error_message = error_message(tasks[t].call.filename)

FailedAndRun(t) ==
  /\ t = Len(tasks)
  /\ Done(t)
  /\ tasks[t].call.outcome = "err"
  /\ ~Pending(t)

C7_FailureIsSurfaced ==
  \A t \in DOMAIN tasks : FailedAndRun(t) => Surfaced

====
